---- MODULE Spec2Model ----
(***************************************************************************)
(* Model of src/app.py: one Streamlit script run per user interaction.     *)
(* A submission is the part of a run that starts when the generate button  *)
(* is pressed.  Python strings are sequences of one-character strings      *)
(* (fixed literal text of a template is one element), Python values are    *)
(* records tagged with their type.                                         *)
(***************************************************************************)
EXTENDS Integers, Sequences, FiniteSets, TLC

VARIABLES
    api_key,            \* os.getenv("GOOGLE_API_KEY") is set (fixed for the process)
    session_state,      \* st.session_state: survives reruns of the script
    pc,                 \* position of the script run
    youtube_link,       \* value of the text input
    transcript_text,    \* script global assigned at line 208
    ai_summary,         \* script global assigned at line 229
    summary,            \* script global assigned at line 240 or 246
    model_idx,          \* position of the loop of line 121 in model_names
    fetch_calls,        \* calls of YouTubeTranscriptApi.fetch in this run, with their outcome
    gen_calls,          \* generate_content calls of this run, in order
    messages,           \* st.error / st.warning / per-model failure lines of this run
    shown_summary,      \* what st.write displayed as the summary (lines 234, 242, 248)
    download_summary,   \* data of the "Download Summary" button
    download_transcript \* data of the "Download Full Transcript" button

vars == <<api_key, session_state, pc, youtube_link, transcript_text, ai_summary,
          summary, model_idx, fetch_calls, gen_calls, messages, shown_summary,
          download_summary, download_transcript>>

-----------------------------------------------------------------------------
(* Python values *)

None == [type |-> "NoneType"]
Unbound == [type |-> "unbound"]
NameError == [type |-> "NameError"]
Client == [type |-> "Client"]
Str(s) == [type |-> "str", v |-> s]

\* bool(x) for the values the script tests: None and "" are false.
Truthy(x) == x.type = "Client" \/ (x.type = "str" /\ Len(x.v) > 0)

\* st.session_state.get(key, default)
Get(ss, key, default) == IF key \in DOMAIN ss THEN ss[key] ELSE default

-----------------------------------------------------------------------------
(* str operations *)

IsSpace(c) == c \in {" ", "\n", "\t"}

\* s[:n]
Slice(s, n) == SubSeq(s, 1, IF Len(s) < n THEN Len(s) ELSE n)

\* sub in s
Contains(s, sub) ==
    \E i \in 1..(Len(s) - Len(sub) + 1) : SubSeq(s, i, i + Len(sub) - 1) = sub

\* s.strip()
Strip(s) ==
    IF \A i \in 1..Len(s) : IsSpace(s[i]) THEN <<>>
    ELSE LET lo == CHOOSE i \in 1..Len(s) :
                       ~IsSpace(s[i]) /\ \A j \in 1..(i - 1) : IsSpace(s[j])
             hi == CHOOSE i \in 1..Len(s) :
                       ~IsSpace(s[i]) /\ \A j \in (i + 1)..Len(s) : IsSpace(s[j])
         IN  SubSeq(s, lo, hi)

\* s.split(): the maximal runs of non-whitespace characters, in order
Split(s) ==
    LET IsStart(i) == ~IsSpace(s[i]) /\ (i = 1 \/ IsSpace(s[i - 1]))
        starts == SelectSeq([i \in 1..Len(s) |-> i], IsStart)
        EndOf(b) == CHOOSE j \in b..Len(s) :
                        /\ (j = Len(s) \/ IsSpace(s[j + 1]))
                        /\ \A k \in b..j : ~IsSpace(s[k])
    IN  [n \in 1..Len(starts) |-> SubSeq(s, starts[n], EndOf(starts[n]))]

\* " ".join(ws[lo..hi])
RECURSIVE JoinRange(_, _, _)
JoinRange(ws, lo, hi) ==
    IF lo > hi THEN <<>>
    ELSE IF lo = hi THEN ws[lo]
    ELSE LET mid == (lo + hi) \div 2
         IN  JoinRange(ws, lo, mid) \o <<" ">> \o JoinRange(ws, mid + 1, hi)

\* " ".join(ws)
Join(ws) == JoinRange(ws, 1, Len(ws))

\* str(n) for n >= 0
Digit(d) == <<"0", "1", "2", "3", "4", "5", "6", "7", "8", "9">>[d + 1]
RECURSIVE IntStr(_)
IntStr(n) == IF n < 10 THEN <<Digit(n)>> ELSE IntStr(n \div 10) \o <<Digit(n % 10)>>

-----------------------------------------------------------------------------
(* extract_transcript_details: lines 57-102 *)

VideoIdLen == 11

\* the character class [0-9A-Za-z_-]
IdChars ==
    {"0", "1", "2", "3", "4", "5", "6", "7", "8", "9",
     "A", "B", "C", "D", "E", "F", "G", "H", "I", "J", "K", "L", "M",
     "N", "O", "P", "Q", "R", "S", "T", "U", "V", "W", "X", "Y", "Z",
     "a", "b", "c", "d", "e", "f", "g", "h", "i", "j", "k", "l", "m",
     "n", "o", "p", "q", "r", "s", "t", "u", "v", "w", "x", "y", "z",
     "_", "-"}

\* Each pattern is the sequence of its alternative literal prefixes; every one
\* of them is followed by the group ([0-9A-Za-z_-]{11}).  The trailing .* of
\* the first pattern matches any rest, so it constrains nothing.
patterns ==
    << << <<"v", "=">>, <<"/">> >>,
       << <<"e", "m", "b", "e", "d", "/">> >>,
       << <<"y", "o", "u", "t", "u", ".", "b", "e", "/">> >> >>

\* the literal lit at position i of s, followed by 11 identifier characters
LitThenId(s, i, lit) ==
    /\ i + Len(lit) + VideoIdLen - 1 <= Len(s)
    /\ SubSeq(s, i, i + Len(lit) - 1) = lit
    /\ \A k \in (i + Len(lit))..(i + Len(lit) + VideoIdLen - 1) : s[k] \in IdChars

MatchAt(p, s, i) == \E a \in 1..Len(p) : LitThenId(s, i, p[a])

\* re.search(p, s): the leftmost match, the first alternative that matches
\* there; its group(1), or None.
Search(p, s) ==
    IF \A i \in 1..Len(s) : ~MatchAt(p, s, i) THEN None
    ELSE LET i == CHOOSE j \in 1..Len(s) :
                      MatchAt(p, s, j) /\ \A k \in 1..(j - 1) : ~MatchAt(p, s, k)
             a == CHOOSE b \in 1..Len(p) :
                      LitThenId(s, i, p[b]) /\ \A c \in 1..(b - 1) : ~LitThenId(s, i, p[c])
         IN  Str(SubSeq(s, i + Len(p[a]), i + Len(p[a]) + VideoIdLen - 1))

\* lines 60-71: the group of the first pattern, in list order, that matches
ExtractVideoId(url) ==
    IF \A n \in 1..Len(patterns) : Search(patterns[n], url) = None THEN None
    ELSE LET n == CHOOSE m \in 1..Len(patterns) :
                      /\ Search(patterns[m], url) # None
                      /\ \A k \in 1..(m - 1) : Search(patterns[k], url) = None
         IN  Search(patterns[n], url)

(* What api.fetch returns, by the attributes the code tests:                *)
(*   shape "snippets": an object with a snippets collection;                *)
(*   shape "iterable": an iterable of items without a snippets attribute;   *)
(*   shape "str":      a Python str, which defines __iter__ and yields its  *)
(*                     characters;                                          *)
(*   shape "object":   neither attribute, str(result) is its repr.          *)
(* An item is kind "obj" (has a text attribute), "dict" (a mapping with a   *)
(* "text" key) or "char" (a one-character str).                             *)
HasSnippets(result) == result.shape = "snippets"
HasIter(result) == result.shape \in {"iterable", "str"}
Iterate(result) ==
    IF result.shape = "str"
    THEN [i \in 1..Len(result.text) |-> [kind |-> "char", text |-> <<result.text[i]>>]]
    ELSE result.items
HasTextAttr(item) == item.kind = "obj"
IsDictWithText(item) == item.kind = "dict"
Appended(item) == HasTextAttr(item) \/ IsDictWithText(item)

\* transcript_text += " " + text, for each item in order
RECURSIVE Accumulate(_)
Accumulate(items) ==
    IF Len(items) = 0 THEN <<>>
    ELSE <<" ">> \o items[1].text \o Accumulate(Tail(items))

\* lines 84-98
FlattenResult(result) ==
    Strip(IF HasSnippets(result) THEN Accumulate(result.items)
          ELSE IF HasIter(result) THEN Accumulate(SelectSeq(Iterate(result), Appended))
          ELSE result.repr)

\* Mutation of extract_transcript_details: a failed service call is tried once
\* more before the function gives up.
extract_transcript_details_retry(youtube_video_url, outcome) ==
    LET video_id == ExtractVideoId(youtube_video_url) IN
    IF video_id = None
    THEN [ret |-> None, fetched |-> <<>>, msgs |-> <<"no_video_id">>]
    ELSE IF outcome.raised
    THEN [ret |-> None, fetched |-> <<video_id.v, video_id.v>>, msgs |-> <<"extract_error">>]
    ELSE [ret |-> Str(FlattenResult(outcome.result)),
          fetched |-> <<video_id.v>>, msgs |-> <<>>]

\* The whole function on one URL and one outcome of the service call:
\* ret is the returned value, fetched the ids passed to api.fetch, msgs the
\* st.error lines.
extract_transcript_details(youtube_video_url, outcome) ==
    LET video_id == ExtractVideoId(youtube_video_url) IN
    IF video_id = None
    THEN [ret |-> None, fetched |-> <<>>, msgs |-> <<"no_video_id">>]
    ELSE IF outcome.raised
    THEN [ret |-> None, fetched |-> <<video_id.v>>, msgs |-> <<"extract_error">>]
    ELSE [ret |-> Str(FlattenResult(outcome.result)),
          fetched |-> <<video_id.v>>, msgs |-> <<>>]

-----------------------------------------------------------------------------
(* generate_gemini_content: lines 105-138 *)

\* lines 52-54; the fixed instruction text is one element
prompt == <<"You are a YouTube Video Summarizer. [...] summary of the content here:">>

\* lines 113-119
model_names ==
    <<"gemini-2.5-flash", "gemini-2.5-flash-exp", "gemini-2.0-flash",
      "gemini-1.5-pro", "gemini-pro">>

MaxInputChars == 8000

\* Mutation of RequestContents: the slice is one character short.
RequestContents_short(transcript, instructions) ==
    instructions \o <<"\n", "\n", "T", "r", "a", "n", "s", "c", "r", "i", "p", "t", ":", "\n">>
        \o Slice(transcript, MaxInputChars - 1)

\* the f-string of line 127
TranscriptLabel == <<"\n", "\n", "T", "r", "a", "n", "s", "c", "r", "i", "p", "t", ":", "\n">>
RequestContents(transcript, instructions) ==
    instructions \o TranscriptLabel \o Slice(transcript, MaxInputChars)

\* Mutation of LoopStep: a successful call does not leave the loop; the last
\* candidate's result is what the function returns.
LoopStep_no_return(idx, out) ==
    IF idx < Len(model_names)
    THEN [returned |-> FALSE, value |-> None, next |-> idx + 1, log |-> <<>>]
    ELSE [returned |-> TRUE, value |-> IF out.raised THEN None ELSE out.text,
          next |-> idx, log |-> <<>>]

\* Mutation of LoopStep: after the last candidate failed the function returns
\* the failure text instead of None.
LoopStep_returns_error(idx, out) ==
    IF ~out.raised
    THEN [returned |-> TRUE, value |-> out.text, next |-> idx, log |-> <<>>]
    ELSE IF idx < Len(model_names)
    THEN [returned |-> FALSE, value |-> None, next |-> idx + 1, log |-> <<"model_failed">>]
    ELSE [returned |-> TRUE, value |-> Str(<<"e", "r", "r", "o", "r">>), next |-> idx,
          log |-> <<"model_failed">>]

\* One iteration of the loop of lines 121-132 at index idx, where the call
\* ended with out (it raised, or it returned a response whose text is
\* out.text), and the fall-through of line 134.
\* returned: the function returns now, with value; else the loop goes on at next.
LoopStep(idx, out) ==
    IF ~out.raised
    THEN [returned |-> TRUE, value |-> out.text, next |-> idx, log |-> <<>>]
    ELSE IF idx < Len(model_names)
    THEN [returned |-> FALSE, value |-> None, next |-> idx + 1, log |-> <<"model_failed">>]
    ELSE [returned |-> TRUE, value |-> None, next |-> idx, log |-> <<"model_failed">>]

-----------------------------------------------------------------------------
(* generate_simple_summary: lines 141-163 *)

SummaryWords == 100
Ellipsis == <<".", ".", ".">>

\* Mutation of SimpleBody: the comparison is >= instead of >.
SimpleBody_ge(transcript) ==
    LET words == Split(transcript) IN
    IF Len(words) >= SummaryWords
    THEN Join(SubSeq(words, 1, SummaryWords)) \o Ellipsis
    ELSE transcript

\* the text placed in the template: lines 144-149
SimpleBody(transcript) ==
    LET words == Split(transcript) IN
    IF Len(words) > SummaryWords
    THEN Join(SubSeq(words, 1, SummaryWords)) \o Ellipsis
    ELSE transcript

\* the template of lines 152-161 around its three fields
TemplateHead == <<"## Summary (Simple Extraction)">>
TemplateNote == <<"*Note: This is a simple text extraction since AI summarization is unavailable.*">>
Template(body, nwords, nchars) ==
    TemplateHead \o body \o TemplateNote \o <<"**Transcript Length:** ">>
        \o IntStr(nwords) \o <<" words, ">> \o IntStr(nchars) \o <<" characters">>

generate_simple_summary(transcript) ==
    Template(SimpleBody(transcript), Len(Split(transcript)), Len(transcript))

-----------------------------------------------------------------------------
(* the generate button handler: lines 197-276 *)

\* lines 198-204: the message that stops the submission, or "" to go on
CheckLink(link) ==
    IF Len(link) = 0 THEN "enter_url"
    ELSE IF ~Contains(link, <<"y", "o", "u", "t", "u", "b", "e", ".", "c", "o", "m">>)
            /\ ~Contains(link, <<"y", "o", "u", "t", "u", ".", "b", "e">>)
    THEN "invalid_url"
    ELSE ""

\* line 210
TranscriptMissing(text) == ~Truthy(text)

\* line 225
GeminiAvailable(ss) == Get(ss, "gemini_available", FALSE)

\* line 231
AiSummaryUsable(ai) == Truthy(ai)

\* Mutation of FinalSummary: the condition is ai_summary alone.
FinalSummary_no_guard(available, ai, su) ==
    IF ai = Unbound THEN NameError
    ELSE IF Truthy(ai) THEN ai
    ELSE IF su = Unbound THEN NameError
    ELSE su

\* line 258: ai_summary if (gemini_available and ai_summary) else summary.
\* A name is looked up only when its operand is evaluated; looking up a name
\* that was never assigned raises NameError.
FinalSummary(available, ai, su) ==
    IF available /\ ai = Unbound THEN NameError
    ELSE IF available /\ Truthy(ai) THEN ai
    ELSE IF su = Unbound THEN NameError
    ELSE su

-----------------------------------------------------------------------------
(* Inputs *)

MaxSegs == 2

Hosts ==
    {<<"h", "t", "t", "p", "s", ":", "/", "/", "w", "w", "w", ".",
       "y", "o", "u", "t", "u", "b", "e", ".", "c", "o", "m">>,
     <<"h", "t", "t", "p", "s", ":", "/", "/", "y", "o", "u", "t", "u", ".", "b", "e">>,
     <<"h", "t", "t", "p", "s", ":", "/", "/", "e", "x", "a", "m", "p", "l", "e", ".", "c", "o", "m">>}
Paths ==
    {<<"/", "w", "a", "t", "c", "h", "?", "v", "=">>,
     <<"/", "e", "m", "b", "e", "d", "/">>,
     <<"/">>,
     <<"/", "c", "h", "a", "n", "n", "e", "l", "/">>,
     <<"/", "r", "e", "s", "u", "l", "t", "s", "?", "q", "=">>}
Ids ==
    {<<"c", "E", "7", "2", "C", "0", "e", "0", "b", "K">>,
     <<"c", "E", "7", "2", "C", "0", "e", "0", "b", "K", "w", "&", "t", "=", "5", "s">>}
Urls == {<<>>} \cup {h \o p \o i : h \in Hosts, p \in Paths, i \in Ids}

\* n characters, the digits in turn
Ramp(n) == [i \in 1..n |-> Digit(i % 10)]
\* n one-letter words, two spaces between neighbours
Spaced(n) == [i \in 1..(3 * n - 2) |-> IF i % 3 = 1 THEN "w" ELSE " "]

SegTexts == {<<"H", "e", "l", "l", "o">>, <<"w", "o", "r", "l", "d">>, <<" ">>}
LongTexts ==
    {Ramp(MaxInputChars), Ramp(MaxInputChars + 1),
     Spaced(SummaryWords), Spaced(SummaryWords + 1)}
\* the segment texts of a response, in order
Contents == UNION {[1..n -> SegTexts] : n \in 0..MaxSegs}
LongContents == {<<t>> : t \in LongTexts}

ItemsOf(kind, c) == [i \in 1..Len(c) |-> [kind |-> kind, text |-> c[i]]]
ObjectRepr == <<"<", "o", "b", "j", "e", "c", "t", ">">>
Results ==
    {[shape |-> "snippets", items |-> ItemsOf("obj", c)] : c \in Contents \cup LongContents}
    \cup {[shape |-> "iterable", items |-> ItemsOf(k, c)] : k \in {"obj", "dict"}, c \in Contents}
    \cup {[shape |-> "str", text |-> Strip(Join(c))] : c \in Contents}
    \cup {[shape |-> "object", repr |-> ObjectRepr]}

FetchOutcomes ==
    {[raised |-> TRUE, error |-> e] : e \in {"NoTranscriptFound", "RequestError"}}
    \cup {[raised |-> FALSE, result |-> r] : r \in Results}
NotCalled == [raised |-> TRUE, error |-> "not called"]

Notes == <<"N", "o", "t", "e", "s">>
\* a generate_content call raises, or returns a response whose text is a
\* string or None
GenOutcomes ==
    {[raised |-> TRUE, error |-> "error"]}
    \cup {[raised |-> FALSE, text |-> t] : t \in {Str(Notes), None}}

-----------------------------------------------------------------------------
(* The script *)

Put(ss, key, value) == [k \in DOMAIN ss \cup {key} |-> IF k = key THEN value ELSE ss[k]]

Locals ==
    /\ transcript_text = Unbound
    /\ ai_summary = Unbound
    /\ summary = Unbound
    /\ model_idx = 0
    /\ fetch_calls = <<>>
    /\ gen_calls = <<>>
    /\ messages = <<>>
    /\ shown_summary = None
    /\ download_summary = None
    /\ download_transcript = None

Init ==
    /\ api_key \in BOOLEAN
    /\ session_state = [k \in {} |-> None]
    /\ pc = "boot"
    /\ youtube_link = <<>>
    /\ Locals

\* Mutation of ScriptStart: the client is built whether or not the key is set.
ScriptStart_unguarded ==
    /\ pc = "boot"
    /\ pc' = "button"
    /\ session_state' =
           Put(Put(session_state, "gemini_available", TRUE), "gemini_client", Client)
    /\ UNCHANGED <<api_key, youtube_link, transcript_text, ai_summary, summary,
                   model_idx, fetch_calls, gen_calls, messages, shown_summary,
                   download_summary, download_transcript>>

\* lines 38-50
ScriptStart ==
    /\ pc = "boot"
    /\ pc' = "button"
    /\ IF api_key
       THEN \E ok \in BOOLEAN :
              IF ok
              THEN /\ session_state' =
                          Put(Put(session_state, "gemini_available", TRUE),
                              "gemini_client", Client)
                   /\ UNCHANGED messages
              ELSE /\ session_state' = Put(session_state, "gemini_available", FALSE)
                   /\ messages' = Append(messages, "config_failed")
       ELSE /\ session_state' = Put(session_state, "gemini_available", FALSE)
            /\ messages' = Append(messages, "no_api_key")
    /\ UNCHANGED <<api_key, youtube_link, transcript_text, ai_summary, summary,
                   model_idx, fetch_calls, gen_calls, shown_summary,
                   download_summary, download_transcript>>

\* line 197, the button was not pressed: the run renders the form and ends
RenderForm ==
    /\ pc = "button"
    /\ \E link \in Urls : youtube_link' = link
    /\ pc' = "idle"
    /\ UNCHANGED <<api_key, session_state, transcript_text, ai_summary, summary,
                   model_idx, fetch_calls, gen_calls, messages, shown_summary,
                   download_summary, download_transcript>>

\* lines 197-204
ClickGenerate ==
    /\ pc = "button"
    /\ \E link \in Urls :
         /\ youtube_link' = link
         /\ IF CheckLink(link) = ""
            THEN pc' = "extract" /\ UNCHANGED messages
            ELSE pc' = "stopped" /\ messages' = Append(messages, CheckLink(link))
    /\ UNCHANGED <<api_key, session_state, transcript_text, ai_summary, summary,
                   model_idx, fetch_calls, gen_calls, shown_summary,
                   download_summary, download_transcript>>

\* lines 206-214
ExtractTranscript ==
    /\ pc = "extract"
    /\ \E outcome \in (IF ExtractVideoId(youtube_link) = None
                       THEN {NotCalled} ELSE FetchOutcomes) :
         LET r == extract_transcript_details(youtube_link, outcome) IN
         /\ transcript_text' = r.ret
         /\ fetch_calls' = fetch_calls \o
                [i \in 1..Len(r.fetched) |-> [video_id |-> r.fetched[i], outcome |-> outcome]]
         /\ IF TranscriptMissing(r.ret)
            THEN /\ messages' = messages \o r.msgs \o <<"no_transcript">>
                 /\ pc' = "stopped"
            ELSE /\ messages' = messages \o r.msgs
                 /\ pc' = "summary"
    /\ UNCHANGED <<api_key, session_state, youtube_link, ai_summary, summary,
                   model_idx, gen_calls, shown_summary, download_summary,
                   download_transcript>>

\* lines 225-229 and 244-249, with the entry of generate_gemini_content
\* (lines 108-110)
StartSummary ==
    /\ pc = "summary"
    /\ IF GeminiAvailable(session_state)
       THEN /\ IF Truthy(Get(session_state, "gemini_client", None))
               THEN model_idx' = 1 /\ pc' = "generate" /\ UNCHANGED ai_summary
               ELSE ai_summary' = None /\ pc' = "show" /\ UNCHANGED model_idx
            /\ UNCHANGED <<summary, shown_summary, messages>>
       ELSE /\ summary' = Str(generate_simple_summary(transcript_text.v))
            /\ shown_summary' = summary'
            /\ messages' = Append(messages, "not_configured")
            /\ pc' = "download"
            /\ UNCHANGED <<ai_summary, model_idx>>
    /\ UNCHANGED <<api_key, session_state, youtube_link, transcript_text,
                   fetch_calls, gen_calls, download_summary, download_transcript>>

\* lines 121-134: one generate_content call and what the loop does with it
TryModel ==
    /\ pc = "generate"
    /\ \E out \in GenOutcomes :
         LET step == LoopStep(model_idx, out) IN
         /\ gen_calls' = Append(gen_calls,
                [model |-> model_names[model_idx],
                 contents |-> RequestContents(transcript_text.v, prompt),
                 outcome |-> out])
         /\ messages' = messages \o step.log
         /\ model_idx' = step.next
         /\ IF step.returned
            THEN ai_summary' = step.value /\ pc' = "show"
            ELSE UNCHANGED <<ai_summary, pc>>
    /\ UNCHANGED <<api_key, session_state, youtube_link, transcript_text, summary,
                   fetch_calls, shown_summary, download_summary, download_transcript>>

\* lines 231-243
ShowSummary ==
    /\ pc = "show"
    /\ IF AiSummaryUsable(ai_summary)
       THEN /\ shown_summary' = ai_summary
            /\ UNCHANGED <<summary, messages>>
       ELSE /\ summary' = Str(generate_simple_summary(transcript_text.v))
            /\ shown_summary' = summary'
            /\ messages' = Append(messages, "ai_failed")
    /\ pc' = "download"
    /\ UNCHANGED <<api_key, session_state, youtube_link, transcript_text, ai_summary,
                   model_idx, fetch_calls, gen_calls, download_summary,
                   download_transcript>>

\* lines 251-276; a NameError at line 258 ends the run before any button
DownloadOptions ==
    /\ pc = "download"
    /\ LET final_summary ==
               FinalSummary(GeminiAvailable(session_state), ai_summary, summary) IN
       IF final_summary = NameError
       THEN /\ pc' = "crashed"
            /\ UNCHANGED <<download_summary, download_transcript>>
       ELSE /\ download_summary' = final_summary
            /\ download_transcript' = transcript_text
            /\ pc' = "end"
    /\ UNCHANGED <<api_key, session_state, youtube_link, transcript_text, ai_summary,
                   summary, model_idx, fetch_calls, gen_calls, messages, shown_summary>>

\* the next interaction runs the script again from the top: the globals of the
\* script are gone, st.session_state and the text input's value stay
Rerun ==
    /\ pc \in {"idle", "end", "stopped", "crashed"}
    /\ pc' = "boot"
    /\ transcript_text' = Unbound
    /\ ai_summary' = Unbound
    /\ summary' = Unbound
    /\ model_idx' = 0
    /\ fetch_calls' = <<>>
    /\ gen_calls' = <<>>
    /\ messages' = <<>>
    /\ shown_summary' = None
    /\ download_summary' = None
    /\ download_transcript' = None
    /\ UNCHANGED <<api_key, session_state, youtube_link>>

Next ==
    \/ ScriptStart
    \/ RenderForm
    \/ ClickGenerate
    \/ ExtractTranscript
    \/ StartSummary
    \/ TryModel
    \/ ShowSummary
    \/ DownloadOptions
    \/ Rerun

Spec == Init /\ [][Next]_vars

-----------------------------------------------------------------------------
(* Properties *)

AllCandidatesFailed ==
    /\ Len(gen_calls) = Len(model_names)
    /\ \A i \in 1..Len(gen_calls) : gen_calls[i].outcome.raised

\* the fallback summarizer's output is what was displayed as the summary
FallbackShown == summary # Unbound /\ shown_summary = summary

Submitted == pc \notin {"boot", "button", "idle"}

\* C1: the generate_content calls of a submission are model_names[1..n] in
\* that order, every call but the last one failed, and a call that returned
\* ends the loop with its text as the function's result.
C1_CandidatesInOrder ==
    /\ Len(gen_calls) <= Len(model_names)
    /\ \A i \in 1..Len(gen_calls) :
         /\ gen_calls[i].model = model_names[i]
         /\ i < Len(gen_calls) => gen_calls[i].outcome.raised
    /\ (Len(gen_calls) > 0 /\ ~gen_calls[Len(gen_calls)].outcome.raised)
         => /\ pc # "generate"
            /\ ai_summary = gen_calls[Len(gen_calls)].outcome.text

C1_Witness ==
    /\ pc = "end"
    /\ Len(gen_calls) = 3
    /\ gen_calls[3].outcome = [raised |-> FALSE, text |-> Str(Notes)]
    /\ shown_summary = Str(Notes)

\* C2: when all five calls failed, generate_gemini_content has returned None
\* (nothing was raised), the run is neither stopped nor crashed, and from the
\* display on the summary shown is the fallback summarizer's output.
C2_AllFailedFallsBack ==
    AllCandidatesFailed =>
        /\ ai_summary = None
        /\ pc \in {"show", "download", "end"}
        /\ pc \in {"download", "end"} =>
              /\ FallbackShown
              /\ shown_summary = Str(generate_simple_summary(transcript_text.v))
              /\ "ai_failed" \in {messages[i] : i \in 1..Len(messages)}

C2_Witness == AllCandidatesFailed /\ pc = "end" /\ FallbackShown

\* the three URL forms the URL parser supports, each followed by an identifier
SupportedForms ==
    {<<"v", "=">>,
     <<"y", "o", "u", "t", "u", ".", "b", "e", "/">>,
     <<"/", "e", "m", "b", "e", "d", "/">>}
HasSupportedForm(url) ==
    \E lit \in SupportedForms : \E i \in 1..Len(url) : LitThenId(url, i, lit)

InvalidUrlMessages == {"enter_url", "invalid_url", "no_video_id"}

\* C3: a submission of a URL with none of the supported forms never calls the
\* transcript service and ends stopped, with an invalid-URL message.
C3_NoFetchForUnsupportedUrl ==
    (Submitted /\ ~HasSupportedForm(youtube_link)) =>
        /\ fetch_calls = <<>>
        /\ pc \in {"extract", "stopped"}
        /\ pc = "stopped" => \E i \in 1..Len(messages) : messages[i] \in InvalidUrlMessages

\* the text a response stands for: the string itself, or the segment texts
\* joined by single spaces and trimmed
ResponseText(result) ==
    IF result.shape = "str" THEN result.text
    ELSE Strip(Join([i \in 1..Len(result.items) |-> result.items[i].text]))

\* C4: for each of the four response shapes the returned transcript is the
\* text the response stands for.
C4_ShapeInvariance ==
    \A i \in 1..Len(fetch_calls) :
        (~fetch_calls[i].outcome.raised
         /\ fetch_calls[i].outcome.result.shape \in {"snippets", "iterable", "str"})
            => transcript_text = Str(ResponseText(fetch_calls[i].outcome.result))

FetchFailed == \E i \in 1..Len(fetch_calls) : fetch_calls[i].outcome.raised

\* C5: a failed transcript service call is the only one of its submission,
\* which is stopped with an error shown: no generate_content call, no fallback
\* summary, nothing displayed as summary, no download offered.
C5_FetchFailureIsTerminal ==
    FetchFailed =>
        /\ Len(fetch_calls) = 1
        /\ pc = "stopped"
        /\ "extract_error" \in {messages[i] : i \in 1..Len(messages)}
        /\ gen_calls = <<>>
        /\ summary = Unbound
        /\ shown_summary = None
        /\ download_summary = None
        /\ download_transcript = None

C5_Witness == FetchFailed /\ pc = "stopped" /\ fetch_calls[1].outcome.error = "RequestError"

\* C6: without an API key no run crashes, no generate_content call is made,
\* and a submission whose transcript was fetched displays the fallback
\* summarizer's output.
C6_NoKeyFallbackOnly ==
    ~api_key =>
        /\ gen_calls = <<>>
        /\ pc \notin {"crashed", "generate", "show"}
        /\ pc \in {"download", "end"} =>
              /\ FallbackShown
              /\ shown_summary = Str(generate_simple_summary(transcript_text.v))

C6_Witness ==
    /\ ~api_key
    /\ pc = "end"
    /\ Len(fetch_calls) = 1
    /\ FallbackShown

\* the number of whitespace-delimited words of s: the positions where a word starts
NumWords(s) ==
    Cardinality({i \in 1..Len(s) : ~IsSpace(s[i]) /\ (i = 1 \/ IsSpace(s[i - 1]))})

\* C7: the fallback summary is the template around the first 100 words joined
\* by single spaces and followed by the ellipsis when the transcript has more
\* than 100 words, around the transcript itself otherwise, and it reports the
\* transcript's number of words and its length; it is always a string.
C7_FallbackSummary ==
    summary # Unbound =>
        LET t == transcript_text.v
            body == IF NumWords(t) > SummaryWords
                    THEN Join(SubSeq(Split(t), 1, SummaryWords)) \o Ellipsis
                    ELSE t
        IN  /\ summary.type = "str"
            /\ summary.v = Template(body, NumWords(t), Len(t))

C7_Witness ==
    /\ summary # Unbound
    /\ NumWords(transcript_text.v) = SummaryWords + 1
    /\ pc = "end"

\* what follows the instructions and the label in a request
TranscriptPart(contents) ==
    SubSeq(contents, Len(prompt) + Len(TranscriptLabel) + 1, Len(contents))

\* C8: every request is the instructions, the label and then the first 8000
\* characters of the transcript if it is longer than that, the whole
\* transcript otherwise; all requests of a submission are the same.
C8_RequestTruncation ==
    \A i \in 1..Len(gen_calls) :
        LET t == transcript_text.v
            part == TranscriptPart(gen_calls[i].contents)
        IN  /\ SubSeq(gen_calls[i].contents, 1, Len(prompt) + Len(TranscriptLabel))
                   = prompt \o TranscriptLabel
            /\ Len(t) > MaxInputChars =>
                   /\ Len(part) = MaxInputChars
                   /\ \A k \in 1..MaxInputChars : part[k] = t[k]
            /\ Len(t) <= MaxInputChars => part = t
            /\ gen_calls[i].contents = gen_calls[1].contents

C8_Witness ==
    /\ Len(gen_calls) >= 2
    /\ Len(transcript_text.v) > MaxInputChars

AiUnavailable ==
    \/ ~GeminiAvailable(session_state)
    \/ ~Truthy(Get(session_state, "gemini_client", None))

\* C9: the fallback summarizer's output is displayed only when AI
\* summarization is unavailable or all candidates were called and failed.
C9_FallbackOnlyAfterAllFailed ==
    FallbackShown => (AiUnavailable \/ AllCandidatesFailed)

\* C10: no run crashes at the download step, and at the end of a submission
\* that reached it the summary download is the string that was displayed (the
\* AI text or the fallback text) and the transcript download is the transcript.
C10_DownloadsMatchDisplay ==
    /\ pc # "crashed"
    /\ pc = "end" =>
         /\ download_summary.type = "str"
         /\ download_summary = shown_summary
         /\ \/ ai_summary # Unbound /\ shown_summary = ai_summary
            \/ summary # Unbound /\ shown_summary = summary
         /\ transcript_text.type = "str"
         /\ download_transcript = transcript_text

C10_Witness ==
    /\ pc = "end"
    /\ api_key
    /\ Len(gen_calls) > 0
    /\ ai_summary = None
    /\ download_summary = summary

====
